---- MODULE Spec2Model ----
(***************************************************************************)
(* Model of cg/src/util/vx.rs: the V3<T> vector, its array conversions and *)
(* views, iteration, comparison and element-wise operators, as generated   *)
(* by the macros of the file for V3 { x, y, z }.                           *)
(*                                                                         *)
(* A behaviour is a client holding one vector `a` and one operand `b`,     *)
(* and calling the operations on them. The element type T is fixed per behaviour: "i8" (a   *)
(* signed integer of Bits bits) or "f32" (floats, here the exactly         *)
(* representable small integers and NaN).  The build's overflow-checks     *)
(* setting is fixed per behaviour too.                                     *)
(***************************************************************************)
EXTENDS Integers, Sequences, FiniteSets, TLC

VARIABLES
    ty,     \* the element type T the client instantiates: "i8" or "f32"
    chk,    \* TRUE iff the build has overflow checks (debug profile)
    a,      \* the client's vector: a record [x, y, z]
    b,      \* the operand the client holds: [kind, v], a vector, a scalar,
            \* a sequence of items, an array, or none
    view,   \* TRUE while a `&mut [T; 3]` obtained from `&mut a` is held
    last    \* the last call: [op, pre, arg, ret, ok]

vars == <<ty, chk, a, b, view, last>>

(***************************************************************************)
(* Bounds of the model.                                                    *)
(***************************************************************************)
MaxLen == 4     \* longest sequence handed to from_iter

(***************************************************************************)
(* The shapes.                                                             *)
(***************************************************************************)
Fields == <<"x", "y", "z">>
V4Fields == <<"x", "y", "w">>
Size == 3
FieldSet == {Fields[k] : k \in 1..Len(Fields)}
Idx == 0..(Size - 1)

\* The macro invocations at the end of the file: <<macro, arm, shape>>.
Invocations ==
    {<<"vector_default", "", "V3">>,
     <<"vector_from_into", "", "V3">>,
     <<"vector_iterator", "from", "V3">>,
     <<"vector_iterator", "into", "V3">>,
     <<"vector_comparator", "", "V3">>,
     <<"vector_operator", "unary Not", "V3">>,
     <<"vector_operator", "unary Neg", "V3">>,
     <<"vector_operator", "binary Add", "V3">>,
     <<"vector_operator", "binary Sub", "V3">>,
     <<"vector_operator", "binary Mul", "V3">>,
     <<"vector_operator", "binary Div", "V3">>,
     <<"vector_operator", "binary Rem", "V3">>,
     <<"vector_operator", "assign Add", "V3">>,
     <<"vector_operator", "assign Sub", "V3">>,
     <<"vector_operator", "assign Mul", "V3">>,
     <<"vector_operator", "assign Div", "V3">>,
     <<"vector_operator", "assign Rem", "V3">>}

(***************************************************************************)
(* The element type T.                                                     *)
(***************************************************************************)
Bits == 8
MinT == -(2 ^ (Bits - 1))
MaxT == (2 ^ (Bits - 1)) - 1

F(n) == [nan |-> FALSE, v |-> n]
NaN == [nan |-> TRUE, v |-> 0]

IVals == {MinT, -1, 0, 1}
FVals == {F(0), F(1), F(2), NaN}
Vals == IF ty = "i8" THEN IVals ELSE FVals
Vecs == [FieldSet -> Vals]
Arrays == [Idx -> Vals]

\* T::default() and T::zero()
DefaultT == IF ty = "i8" THEN 0 ELSE F(0)

\* The outcome of an element operation: a value, or a fault (panic).
Ok(v) == [ok |-> TRUE, val |-> v]
Fault == [ok |-> FALSE, val |-> 0]

Abs(n) == IF n < 0 THEN -n ELSE n
Wrap(r) == ((r - MinT) % (2 ^ Bits)) + MinT
\* + - * and unary - on iN: a panic with overflow checks, else two's complement
Checked(r) ==
    IF r \in MinT..MaxT THEN Ok(r)
    ELSE IF chk THEN Fault ELSE Ok(Wrap(r))
\* / and % on iN truncate toward zero
TruncDiv(p, q) ==
    IF (p < 0) = (q < 0) THEN Abs(p) \div Abs(q) ELSE -(Abs(p) \div Abs(q))
TruncRem(p, q) == p - q * TruncDiv(p, q)

BinOps == {"add", "sub", "mul", "div", "rem"}

\* $trt::$func(self.$field, rhs.$field) for T = iN
ElemOp(op, p, q) ==
    CASE op = "add" -> Checked(p + q)
      [] op = "sub" -> Checked(p - q)
      [] op = "mul" -> Checked(p * q)
      [] op = "div" -> IF q = 0 \/ (p = MinT /\ q = -1) THEN Fault
                       ELSE Ok(TruncDiv(p, q))
      [] op = "rem" -> IF q = 0 \/ (p = MinT /\ q = -1) THEN Fault
                       ELSE Ok(TruncRem(p, q))

\* Mutant: the operands of the element operation the wrong way round
ElemOpAssign_Swapped(op, p, q) == ElemOp(op, q, p)

\* $trt::$func(&mut self.$field, rhs.$field) for T = iN: the new value of
\* the field, or a fault that leaves the field as it was
ElemOpAssign(op, p, q) == ElemOp(op, p, q)

(***************************************************************************)
(* vector_operator!                                                        *)
(***************************************************************************)
\* Not::not and Neg::neg on iN
ElemUnary(op, p) ==
    CASE op = "not" -> Ok(-p - 1)
      [] op = "neg" -> Checked(-p)

\* (unary): Self::Output { $($field: $trt::$func(self.$field)),+ }
Unary(op, v) ==
    LET r == [f \in FieldSet |-> ElemUnary(op, v[f])]
    IN  IF \A f \in FieldSet : r[f].ok
        THEN Ok([f \in FieldSet |-> r[f].val])
        ELSE Fault

\* Mutant: the vector layer checks the divisor itself and hands the receiver
\* back instead of dividing by zero
Binary_Guarded(op, v, rhs) ==
    LET r == [f \in FieldSet |-> ElemOp(op, v[f], rhs[f])]
    IN  IF op \in {"div", "rem"} /\ \E f \in FieldSet : rhs[f] = 0
        THEN Ok(v)
        ELSE IF \A f \in FieldSet : r[f].ok
        THEN Ok([f \in FieldSet |-> r[f].val])
        ELSE Fault

\* (binary), rhs: Self
Binary(op, v, rhs) ==
    LET r == [f \in FieldSet |-> ElemOp(op, v[f], rhs[f])]
    IN  IF \A f \in FieldSet : r[f].ok
        THEN Ok([f \in FieldSet |-> r[f].val])
        ELSE Fault

\* (binary), rhs: T
BinaryScalar(op, v, s) ==
    LET r == [f \in FieldSet |-> ElemOp(op, v[f], s)]
    IN  IF \A f \in FieldSet : r[f].ok
        THEN Ok([f \in FieldSet |-> r[f].val])
        ELSE Fault

\* Mutant: all the fields are computed first and stored only when none faults
AssignFrom_Atomic(op, k, v, rhs) ==
    LET r == [f \in FieldSet |-> ElemOp(op, v[f], rhs[f])]
    IN  IF \A f \in FieldSet : r[f].ok
        THEN Ok([f \in FieldSet |-> r[f].val])
        ELSE [ok |-> FALSE, val |-> v]

\* (assign): $($trt::$func(&mut self.$field, rhs.$field));*
\* The statements run in field order from the k-th on; a fault ends the
\* call and leaves the receiver as the statements before it made it.
RECURSIVE AssignFrom(_, _, _, _)
AssignFrom(op, k, v, rhs) ==
    IF k > Len(Fields) THEN Ok(v)
    ELSE LET f == Fields[k]
             e == ElemOpAssign(op, v[f], rhs[f])
         IN  IF e.ok
             THEN AssignFrom(op, k + 1, [v EXCEPT ![f] = e.val], rhs)
             ELSE [ok |-> FALSE, val |-> v]

\* (assign), rhs: Self
Assign(op, v, rhs) == AssignFrom(op, 1, v, rhs)

\* (assign), rhs: T (Copy: every statement gets the same scalar)
AssignScalar(op, v, s) == AssignFrom(op, 1, v, [f \in FieldSet |-> s])

(***************************************************************************)
(* vector_default!, vector_from_into!                                      *)
(***************************************************************************)
\* Default::default
DefaultV3 == [f \in FieldSet |-> DefaultT]

\* Mutant: a layout that places the fields in the reverse order
Offset_Reordered(f) == Len(Fields) - (CHOOSE k \in 1..Len(Fields) : Fields[k] = f)

\* #[repr(C)]: the fields lie in declaration order, one element apart
Offset(f) == (CHOOSE k \in 1..Len(Fields) : Fields[k] = f) - 1
FieldAt(i) == CHOOSE f \in FieldSet : Offset(f) = i

\* From<&[T; 3]> for &V3<T>: the array's storage read as a V3
AsV3Ref(arr) == [f \in FieldSet |-> arr[Offset(f)]]
\* From<&V3<T>> for &[T; 3]: the vector's storage read as an array
AsArrayRef(v) == [i \in Idx |-> v[FieldAt(i)]]
\* From<&[T; 3]> for V3<T>: *v of the reinterpreted reference
FromArray(arr) == AsV3Ref(arr)
\* From<&V3<T>> for [T; 3]: *s of the reinterpreted reference
ToArray(v) == AsArrayRef(v)
\* Mutant: the view is a copy of the vector, and the store lands in the copy
ViewStore_Copy(v, i, e) == v

\* From<&mut V3<T>> for &mut [T; 3], then view[i] = e: the store lands in
\* the vector's own storage
ViewStore(v, i, e) == [v EXCEPT ![FieldAt(i)] = e]
\* view[i] read through the view
ViewLoad(v, i) == AsArrayRef(v)[i]

(***************************************************************************)
(* vector_iterator!                                                        *)
(***************************************************************************)
Some(e) == [some |-> TRUE, val |-> e]
None == [some |-> FALSE, val |-> 0]

\* Iterator::next of the caller's sequence
SeqNext(s) ==
    IF s = <<>> THEN [item |-> None, rest |-> s]
    ELSE [item |-> Some(Head(s)), rest |-> Tail(s)]

\* Option::unwrap_or_default
UnwrapOrDefault(o) == IF o.some THEN o.val ELSE DefaultT
\* *Option::unwrap_or(&T::default())
UnwrapOrRef(o, d) == IF o.some THEN o.val ELSE d

\* Mutant: every field takes the next item of a fresh iterator
FromIter_Restart(s) ==
    [x |-> UnwrapOrDefault(SeqNext(s).item),
     y |-> UnwrapOrDefault(SeqNext(s).item),
     z |-> UnwrapOrDefault(SeqNext(s).item)]

\* FromIterator<T>::from_iter
FromIter(s) ==
    LET n1 == SeqNext(s)
        n2 == SeqNext(n1.rest)
        n3 == SeqNext(n2.rest)
    IN  [x |-> UnwrapOrDefault(n1.item),
         y |-> UnwrapOrDefault(n2.item),
         z |-> UnwrapOrDefault(n3.item)]

\* FromIterator<&T>::from_iter
FromIterRef(s) ==
    LET n1 == SeqNext(s)
        n2 == SeqNext(n1.rest)
        n3 == SeqNext(n2.rest)
    IN  [x |-> UnwrapOrRef(n1.item, DefaultT),
         y |-> UnwrapOrRef(n2.item, DefaultT),
         z |-> UnwrapOrRef(n3.item, DefaultT)]

\* Mutant: the iterator ends one item early
IntoIter_Short(v) ==
    [data |-> [i \in Idx |-> v[Fields[i + 1]]], start |-> 0, end |-> Size - 1]

\* IntoIterator::into_iter: std::array::IntoIter::new([x, y, z])
IntoIter(v) ==
    [data |-> [i \in Idx |-> v[Fields[i + 1]]], start |-> 0, end |-> Size]

\* Iterator::next of std::array::IntoIter
ArrNext(it) ==
    IF it.start = it.end THEN [item |-> None, rest |-> it]
    ELSE [item |-> Some(it.data[it.start]),
          rest |-> [it EXCEPT !.start = it.start + 1]]

\* The client's loop over the iterator: the items up to the first None, and
\* the iterator left behind
RECURSIVE Drain(_)
Drain(it) ==
    LET n == ArrNext(it)
    IN  IF n.item.some
        THEN LET d == Drain(n.rest)
             IN  [items |-> <<n.item.val>> \o d.items, rest |-> d.rest]
        ELSE [items |-> <<>>, rest |-> n.rest]

(***************************************************************************)
(* vector_comparator!                                                      *)
(***************************************************************************)
\* f32 arithmetic and comparison on the modelled floats
FAdd(p, q) == IF p.nan \/ q.nan THEN NaN ELSE F(p.v + q.v)
FSub(p, q) == IF p.nan \/ q.nan THEN NaN ELSE F(p.v - q.v)
FMul(p, q) == IF p.nan \/ q.nan THEN NaN ELSE F(p.v * q.v)
FLt(p, q) == ~p.nan /\ ~q.nan /\ p.v < q.v
FGt(p, q) == ~p.nan /\ ~q.nan /\ p.v > q.v

\* T: PartialEq, the element ==
ElemEq(p, q) ==
    IF ty = "i8" THEN p = q ELSE ~p.nan /\ ~q.nan /\ p.v = q.v

\* $(self.$field * self.$field +)+ T::zero()
Mag2(v) ==
    FAdd(FAdd(FAdd(FMul(v.x, v.x), FMul(v.y, v.y)), FMul(v.z, v.z)), F(0))

\* Mutant: the fields are compared one after the other, x first
PartialCmp_Lexicographic(v, rhs) ==
    LET d == IF ~ElemEq(v.x, rhs.x) THEN FSub(v.x, rhs.x)
             ELSE IF ~ElemEq(v.y, rhs.y) THEN FSub(v.y, rhs.y)
             ELSE FSub(v.z, rhs.z)
    IN  IF FLt(d, F(0)) THEN Some("Less")
        ELSE IF FGt(d, F(0)) THEN Some("Greater")
        ELSE Some("Equal")

\* PartialOrd::partial_cmp; the result is always Some(ordering)
PartialCmp(v, rhs) ==
    LET d == FSub(Mag2(v), Mag2(rhs))
    IN  IF FLt(d, F(0)) THEN Some("Less")
        ELSE IF FGt(d, F(0)) THEN Some("Greater")
        ELSE Some("Equal")

\* Mutant: || between the fields in place of &&
Eq_Any(v, rhs) == \E k \in 1..Len(Fields) : ElemEq(v[Fields[k]], rhs[Fields[k]])

\* PartialEq::eq
Eq(v, rhs) == \A k \in 1..Len(Fields) : ElemEq(v[Fields[k]], rhs[Fields[k]])

(***************************************************************************)
(* The client: one call per step.                                          *)
(***************************************************************************)
Nil == "nil"
Call(op, pre, arg, ret, ok) ==
    [op |-> op, pre |-> pre, arg |-> arg, ret |-> ret, ok |-> ok]
Operand(kind, v) == [kind |-> kind, v |-> v]

\* The sequences handed to from_iter
Seqs == UNION {[1..n -> Vals] : n \in 0..MaxLen}

\* The calls take their operands from Vals: a vector an operator has taken
\* out of that range is not operated on again.
InBounds == a \in Vecs

\* The client has written `a` as V3 { x, y, z } and holds an operand for
\* the calls to come; where the operand is what `a` is to be built from,
\* `a` is still the default.
Init ==
    /\ ty \in {"i8", "f32"}
    /\ chk \in (IF ty = "i8" THEN BOOLEAN ELSE {FALSE})
    /\ \/ /\ a \in Vecs
          /\ \/ \E v \in Vecs : b = Operand("vec", v)
             \/ \E s \in Vals : b = Operand("scalar", s)
             \/ b = Operand("none", Nil)
       \/ /\ a = DefaultV3
          /\ \/ \E s \in Seqs : b = Operand("seq", s)
             \/ \E arr \in Arrays : b = Operand("array", arr)
    /\ view = FALSE
    /\ last = Call("init", Nil, Nil, Nil, TRUE)

\* a = V3::default()
DefaultCall ==
    /\ ~view
    /\ b.kind = "none"
    /\ a' = DefaultV3
    /\ last' = Call("default", Nil, Nil, DefaultV3, TRUE)
    /\ UNCHANGED <<ty, chk, b, view>>

\* a = V3::from(&arr)
FromArrayCall ==
    /\ ~view
    /\ b.kind = "array"
    /\ a' = FromArray(b.v)
    /\ last' = Call("from_array", Nil, Nil, FromArray(b.v), TRUE)
    /\ UNCHANGED <<ty, chk, b, view>>

\* let arr: [T; 3] = (&a).into()
ToArrayCall ==
    /\ ~view
    /\ InBounds
    /\ b.kind \in {"none", "array"}
    /\ last' = Call("to_array", a, Nil, ToArray(a), TRUE)
    /\ UNCHANGED <<ty, chk, a, b, view>>

\* let s: &[T; 3] = (&a).into()
AsArrayRefCall ==
    /\ ~view
    /\ InBounds
    /\ b.kind = "none"
    /\ last' = Call("as_array_ref", a, Nil, AsArrayRef(a), TRUE)
    /\ UNCHANGED <<ty, chk, a, b, view>>

\* let s: &mut [T; 3] = (&mut a).into()
AsArrayMutCall ==
    /\ ~view
    /\ InBounds
    /\ b.kind = "none"
    /\ view' = TRUE
    /\ last' = Call("as_array_mut", a, Nil, AsArrayRef(a), TRUE)
    /\ UNCHANGED <<ty, chk, a, b>>

\* s[i] = e, through the view; ret is the view as read afterwards
ViewWrite ==
    /\ view
    /\ \E i \in Idx, e \in Vals :
        /\ a' = ViewStore(a, i, e)
        /\ last' = Call("view_write", a, <<i, e>>,
                        [j \in Idx |-> ViewLoad(a', j)], TRUE)
    /\ UNCHANGED <<ty, chk, b, view>>

\* a.f = e, on the vector; ret is the view as read afterwards
FieldWrite ==
    /\ view
    /\ \E f \in FieldSet, e \in Vals :
        /\ a' = [a EXCEPT ![f] = e]
        /\ last' = Call("field_write", a, <<f, e>>,
                        [j \in Idx |-> ViewLoad(a', j)], TRUE)
    /\ UNCHANGED <<ty, chk, b, view>>

\* the view goes out of scope
ReleaseView ==
    /\ view
    /\ view' = FALSE
    /\ last' = Call("release", a, Nil, Nil, TRUE)
    /\ UNCHANGED <<ty, chk, a, b>>

\* a = s.into_iter().collect(), over items or over references to items
FromIterCall ==
    /\ ~view
    /\ b.kind = "seq"
    /\ \E byRef \in BOOLEAN :
        LET v == IF byRef THEN FromIterRef(b.v) ELSE FromIter(b.v)
        IN  /\ a' = v
            /\ last' = Call(IF byRef THEN "from_iter_ref" ELSE "from_iter",
                            Nil, Nil, v, TRUE)
    /\ UNCHANGED <<ty, chk, b, view>>

\* for e in a { .. } / for e in &a { .. }, one more next() after the loop,
\* and the items handed to from_iter; ret is the items seen, the extra
\* next() and the vector rebuilt
IntoIterCall ==
    /\ ~view
    /\ InBounds
    /\ b.kind \in {"none", "seq"}
    /\ \E byRef \in BOOLEAN :
        LET d == Drain(IntoIter(a))
        IN  last' = Call(IF byRef THEN "into_iter_ref" ELSE "into_iter",
                         a, Nil,
                         [items |-> d.items,
                          again |-> ArrNext(d.rest).item,
                          rebuilt |-> IF byRef THEN FromIterRef(d.items)
                                      ELSE FromIter(d.items)],
                         TRUE)
    /\ UNCHANGED <<ty, chk, a, b, view>>

\* a == b
EqCall ==
    /\ ~view
    /\ InBounds
    /\ b.kind = "vec"
    /\ last' = Call("eq", a, Nil, Eq(a, b.v), TRUE)
    /\ UNCHANGED <<ty, chk, a, b, view>>

\* a.partial_cmp(&b), T: Float
PartialCmpCall ==
    /\ ~view
    /\ InBounds
    /\ ty = "f32"
    /\ b.kind = "vec"
    /\ last' = Call("partial_cmp", a, Nil, PartialCmp(a, b.v), TRUE)
    /\ UNCHANGED <<ty, chk, a, b, view>>

\* !a, -a
UnaryCall ==
    /\ ~view
    /\ InBounds
    /\ ty = "i8"
    /\ b.kind = "none"
    /\ \E op \in {"not", "neg"} :
        LET r == Unary(op, a)
        IN  last' = Call("unary", a, op, r.val, r.ok)
    /\ UNCHANGED <<ty, chk, a, b, view>>

\* a OP b, b: V3<T>
BinaryCall ==
    /\ ~view
    /\ InBounds
    /\ ty = "i8"
    /\ b.kind = "vec"
    /\ \E op \in BinOps :
        LET r == Binary(op, a, b.v)
        IN  last' = Call("binary", a, op, r.val, r.ok)
    /\ UNCHANGED <<ty, chk, a, b, view>>

\* a OP s, s: T
BinaryScalarCall ==
    /\ ~view
    /\ InBounds
    /\ ty = "i8"
    /\ b.kind = "scalar"
    /\ \E op \in BinOps :
        LET r == BinaryScalar(op, a, b.v)
        IN  last' = Call("binary_scalar", a, op, r.val, r.ok)
    /\ UNCHANGED <<ty, chk, a, b, view>>

\* a OP= b, b: V3<T>
AssignCall ==
    /\ ~view
    /\ InBounds
    /\ ty = "i8"
    /\ b.kind = "vec"
    /\ \E op \in BinOps :
        LET r == Assign(op, a, b.v)
        IN  /\ a' = r.val
            /\ last' = Call("assign", a, op, Nil, r.ok)
    /\ UNCHANGED <<ty, chk, b, view>>

\* a OP= s, s: T
AssignScalarCall ==
    /\ ~view
    /\ InBounds
    /\ ty = "i8"
    /\ b.kind = "scalar"
    /\ \E op \in BinOps :
        LET r == AssignScalar(op, a, b.v)
        IN  /\ a' = r.val
            /\ last' = Call("assign_scalar", a, op, Nil, r.ok)
    /\ UNCHANGED <<ty, chk, b, view>>

Next ==
    \/ DefaultCall
    \/ FromArrayCall
    \/ ToArrayCall
    \/ AsArrayRefCall
    \/ AsArrayMutCall
    \/ ViewWrite
    \/ FieldWrite
    \/ ReleaseView
    \/ FromIterCall
    \/ IntoIterCall
    \/ EqCall
    \/ PartialCmpCall
    \/ UnaryCall
    \/ BinaryCall
    \/ BinaryScalarCall
    \/ AssignCall
    \/ AssignScalarCall

Spec == Init /\ [][Next]_vars

(***************************************************************************)
(* Helpers of the properties.                                              *)
(***************************************************************************)
ArithOps == {"binary", "binary_scalar", "assign", "assign_scalar"}
FromIterOps == {"from_iter", "from_iter_ref"}
IntoIterOps == {"into_iter", "into_iter_ref"}

\* The right operand of field f in the last arithmetic call
RhsAt(f) == IF b.kind = "vec" THEN b.v[f] ELSE b.v

\* The element operation the last arithmetic call delegates to at field f
ElemAt(f) == ElemOp(last.arg, last.pre[f], RhsAt(f))

\* The first field, in declaration order, whose element operation faults
FirstFault == CHOOSE k \in 1..Len(Fields) :
                /\ ~ElemAt(Fields[k]).ok
                /\ \A j \in 1..(k - 1) : ElemAt(Fields[j]).ok

NoNaN(v) == \A f \in FieldSet : ElemEq(v[f], v[f])

\* The squared magnitude of a vector of finite floats, in exact arithmetic
SqMag(v) == v.x.v * v.x.v + v.y.v * v.y.v + v.z.v * v.z.v
Finite(v) == \A f \in FieldSet : ~v[f].nan

(***************************************************************************)
(* C1: from_iter sets field i (x, y, z) to item i of the sequence when     *)
(* there is one and to the element default when there is none, whatever    *)
(* follows the third item, and it never fails, the empty sequence          *)
(* included.                                                               *)
(***************************************************************************)
C1_FromIter ==
    last.op \in FromIterOps =>
        /\ last.ok
        /\ last.ret = a
        /\ DOMAIN a = FieldSet
        /\ \A k \in 1..Len(Fields) :
            a[Fields[k]] = IF k <= Len(b.v) THEN b.v[k] ELSE DefaultT

C1_Witness ==
    /\ last.op = "from_iter"
    /\ Len(b.v) = 2
    /\ a.x # DefaultT
    /\ a.y # DefaultT
    /\ a.z = DefaultT

(***************************************************************************)
(* C2: a write of e to index i of the mutable array view makes field i of  *)
(* the vector e and leaves the other fields as they were; a write to field *)
(* i of the vector is read at index i of the view; the view always reads   *)
(* what the vector holds.                                                  *)
(***************************************************************************)
C2_ViewAliases ==
    /\ last.op = "view_write" =>
        /\ a[Fields[last.arg[1] + 1]] = last.arg[2]
        /\ \A k \in 1..Len(Fields) :
            k # last.arg[1] + 1 => a[Fields[k]] = last.pre[Fields[k]]
    /\ last.op = "field_write" =>
        /\ \A k \in 1..Len(Fields) :
            Fields[k] = last.arg[1] => last.ret[k - 1] = last.arg[2]
    /\ last.op \in {"view_write", "field_write", "as_array_mut"} =>
        \A k \in 1..Len(Fields) : last.ret[k - 1] = a[Fields[k]]

C2_Witness ==
    /\ last.op = "view_write"
    /\ last.arg[1] = 2
    /\ a.z # last.pre.z
    /\ a.x # a.z

(***************************************************************************)
(* C3: for each of add, sub, mul, div, rem, with a vector or a scalar on   *)
(* the right, a OP= b leaves a equal to the value of a OP b on the values  *)
(* a and b had before, whenever a OP b is defined.                         *)
(***************************************************************************)
C3_AssignIsBinary ==
    /\ (last.op = "assign" /\ Binary(last.arg, last.pre, b.v).ok) =>
        /\ last.ok
        /\ a = Binary(last.arg, last.pre, b.v).val
    /\ (last.op = "assign_scalar" /\ BinaryScalar(last.arg, last.pre, b.v).ok) =>
        /\ last.ok
        /\ a = BinaryScalar(last.arg, last.pre, b.v).val

C3_Witness ==
    /\ last.op = "assign"
    /\ last.arg = "sub"
    /\ last.ok
    /\ a.x # last.pre.x
    /\ a.y # last.pre.y
    /\ a.z # last.pre.z

(***************************************************************************)
(* C4: to_array(v) is [v.x, v.y, v.z]; from_array(to_array(v)) = v; and    *)
(* to_array(from_array(arr)) = arr.                                        *)
(***************************************************************************)
C4_ArrayRoundTrip ==
    /\ last.op = "to_array" =>
        /\ last.ok
        /\ DOMAIN last.ret = Idx
        /\ last.ret[0] = a.x /\ last.ret[1] = a.y /\ last.ret[2] = a.z
        /\ FromArray(last.ret) = a
    /\ last.op = "from_array" =>
        /\ last.ok
        /\ last.ret = a
        /\ ToArray(a) = b.v

C4_Witness ==
    /\ last.op = "to_array"
    /\ a.x # a.y /\ a.y # a.z /\ a.x # a.z

(***************************************************************************)
(* C5: into_iter, by value or by reference, yields v.x, v.y, v.z and is    *)
(* then exhausted; from_iter of those items is v; v is left as it was.     *)
(***************************************************************************)
C5_IterRoundTrip ==
    last.op \in IntoIterOps =>
        /\ last.ok
        /\ last.ret.items = <<a.x, a.y, a.z>>
        /\ Len(last.ret.items) = Size
        /\ ~last.ret.again.some
        /\ last.ret.rebuilt = a
        /\ a = last.pre

C5_Witness ==
    /\ last.op = "into_iter_ref"
    /\ a.x # a.y /\ a.y # a.z /\ a.x # a.z
    /\ a.z # DefaultT

(***************************************************************************)
(* C6: partial_cmp compares the squared magnitudes m(a), m(b): Less when   *)
(* m(a) - m(b) < 0, Greater when it is > 0, Equal when it is 0; {1,0,0}    *)
(* and {0,1,0} compare Equal though they are not equal; {2,0,0} compares   *)
(* Greater than {1,0,0}.                                                   *)
(***************************************************************************)
C6_MagnitudeOrder ==
    last.op = "partial_cmp" =>
        /\ last.ok
        /\ last.ret.some
        /\ (Finite(a) /\ Finite(b.v)) =>
            /\ SqMag(a) - SqMag(b.v) < 0 => last.ret.val = "Less"
            /\ SqMag(a) - SqMag(b.v) > 0 => last.ret.val = "Greater"
            /\ SqMag(a) - SqMag(b.v) = 0 => last.ret.val = "Equal"
        /\ (a = [x |-> F(1), y |-> F(0), z |-> F(0)]
            /\ b.v = [x |-> F(0), y |-> F(1), z |-> F(0)]) =>
            /\ last.ret.val = "Equal"
            /\ ~Eq(a, b.v)
        /\ (a = [x |-> F(2), y |-> F(0), z |-> F(0)]
            /\ b.v = [x |-> F(1), y |-> F(0), z |-> F(0)]) =>
            last.ret.val = "Greater"

C6_Witness ==
    /\ last.op = "partial_cmp"
    /\ a = [x |-> F(0), y |-> F(0), z |-> F(1)]
    /\ b.v = [x |-> F(0), y |-> F(1), z |-> F(0)]
    /\ last.ret = Some("Equal")

(***************************************************************************)
(* C7: equals(a, b) iff a.x == b.x and a.y == b.y and a.z == b.z; the      *)
(* relation is symmetric and transitive, and reflexive on the vectors      *)
(* whose elements equal themselves.                                        *)
(***************************************************************************)
C7_Equality ==
    last.op = "eq" =>
        /\ last.ok
        /\ last.ret = (/\ ElemEq(a.x, b.v.x)
                       /\ ElemEq(a.y, b.v.y)
                       /\ ElemEq(a.z, b.v.z))
        /\ last.ret = Eq(b.v, a)
        /\ (NoNaN(a) /\ a = b.v) => last.ret
        /\ \A c \in Vecs : (last.ret /\ Eq(b.v, c)) => Eq(a, c)

C7_Witness ==
    /\ last.op = "eq"
    /\ last.ret
    /\ a.x # a.y /\ a.y # a.z /\ a.x # a.z

(***************************************************************************)
(* C8, as amended: an arithmetic call fails iff one of the element         *)
(* operations it delegates to fails; for the integer elements a div or rem *)
(* fails exactly when some divisor field (or the scalar) is zero or some   *)
(* dividend field is the least value of the type and its divisor is -1;    *)
(* construction, conversion, iteration, equality and ordering never fail.  *)
(***************************************************************************)
C8_FailsAsElements ==
    /\ last.op \in ArithOps =>
        (~last.ok <=> \E f \in FieldSet : ~ElemAt(f).ok)
    /\ last.op = "unary" =>
        (~last.ok <=> \E f \in FieldSet : ~ElemUnary(last.arg, last.pre[f]).ok)
    /\ (last.op \in ArithOps /\ last.arg \in {"div", "rem"}) =>
        (~last.ok <=> \E f \in FieldSet :
                        \/ RhsAt(f) = 0
                        \/ (last.pre[f] = MinT /\ RhsAt(f) = -1))
    /\ last.op \notin (ArithOps \cup {"unary"}) => last.ok

C8_Witness ==
    /\ last.op = "assign"
    /\ last.arg = "rem"
    /\ ~last.ok
    /\ \A f \in FieldSet : b.v[f] # 0

(***************************************************************************)
(* C8, as claimed: for the integer elements a div or rem fails exactly     *)
(* when some divisor field (or the scalar) is zero.                        *)
(***************************************************************************)
C8_Original ==
    /\ last.op \in ArithOps =>
        (~last.ok <=> \E f \in FieldSet : ~ElemAt(f).ok)
    /\ last.op = "unary" =>
        (~last.ok <=> \E f \in FieldSet : ~ElemUnary(last.arg, last.pre[f]).ok)
    /\ (last.op \in ArithOps /\ last.arg \in {"div", "rem"}) =>
        (~last.ok <=> \E f \in FieldSet : RhsAt(f) = 0)
    /\ last.op \notin (ArithOps \cup {"unary"}) => last.ok

(***************************************************************************)
(* C9, as claimed: whatever the client calls on the 3-component shape is   *)
(* generated for the 4-component shape too; from_array on the 4-component  *)
(* shape fills four fields, the fourth being w, and its iteration yields   *)
(* four items.                                                             *)
(***************************************************************************)
C9_Original ==
    /\ last.op = "from_array" =>
        /\ <<"vector_from_into", "", "V4">> \in Invocations
        /\ Len(V4Fields) = 4
        /\ V4Fields[4] = "w"
    /\ last.op \in IntoIterOps =>
        /\ <<"vector_iterator", "into", "V4">> \in Invocations
        /\ Len(V4Fields) = 4
    /\ last.op # "init" =>
        \A inv \in Invocations : <<inv[1], inv[2], "V4">> \in Invocations

====
